---- MODULE Spec2Model ----
(***************************************************************************)
(* Model of lps-tracker: gitsearch.py (GitSearcher, JIRASearcher and the   *)
(* reconciliation program) and lpstracker.py (the stand-alone flag builder)*)
(*                                                                         *)
(* Python strings are sequences of one-character strings, so that          *)
(* startswith, "in", split, join and format are computed and not assumed.  *)
(* Values that may be None are tagged records (None, Str, Tuple, Dict), so *)
(* that Python truthiness is computed from the value.                      *)
(***************************************************************************)
EXTENDS Integers, Sequences, FiniteSets, TLC

VARIABLES
    pc,                     \* position of the scenario / of the main program
    credentials,            \* the six credential arguments given to JIRASearcher()
    basic_auth_parameters,  \* JIRASearcher.basic_auth_parameters
    oauth_parameters,       \* JIRASearcher.oauth_parameters
    jira,                   \* JIRASearcher.jira: None or the tracker client
    tracker,                \* the tracker's issues: key -> sequence of raw links
    lookups,                \* keys passed to jira.issue() by the last operation, in order
    outcome,                \* what the last operation returned or raised
    tickets,                \* query builder input: ordered tickets
    branch,                 \* query builder input: GitSearcher.branch / branch argument
    flags,                  \* query builder output
    issues,                 \* main program: the positional LPE-n arguments
    related_issues,         \* main program: the set returned by get_related_issues_set
    log_output,             \* text returned by repository.log(...)
    commits,                \* GitSearcher.get_commits result (list of lines)
    not_found_issues        \* main program: the printed not-found issues

vars == <<pc, credentials, basic_auth_parameters, oauth_parameters, jira, tracker,
          lookups, outcome, tickets, branch, flags, issues, related_issues,
          log_output, commits, not_found_issues>>

(***************************************************************************)
(* Bounds                                                                  *)
(***************************************************************************)
MaxTickets == 2     \* longest ticket sequence given to the query builder
MaxLinks == 2       \* most issue links on one tracker issue
MaxIssues == 2      \* most source issues in one expansion call
MaxChunks == 3      \* most text chunks in one version-control log output

(***************************************************************************)
(* Python values                                                           *)
(***************************************************************************)
None == [t |-> "None"]
Str(s) == [t |-> "str", v |-> s]
Tuple(s) == [t |-> "tuple", v |-> s]
Dict(d) == [t |-> "dict", v |-> d]

\* bool(x) for None, str, tuple and dict
Truthy(x) ==
    CASE x.t = "None" -> FALSE
      [] x.t = "str" -> x.v # <<>>
      [] x.t = "tuple" -> x.v # <<>>
      [] x.t = "dict" -> DOMAIN x.v # {}
      [] OTHER -> TRUE

\* any(xs), all(xs) over a sequence of values
any(xs) == \E i \in DOMAIN xs : Truthy(xs[i])
all(xs) == \A i \in DOMAIN xs : Truthy(xs[i])

Return(v) == [kind |-> "return", val |-> v]
Raise(e, m) == [kind |-> "raise", exc |-> e, msg |-> m]

\* str.startswith
StartsWith(s, p) == Len(p) <= Len(s) /\ SubSeq(s, 1, Len(p)) = p

\* the "in" operator between two strings
Contains(s, sub) ==
    \E i \in 0..(Len(s) - Len(sub)) : SubSeq(s, i + 1, i + Len(sub)) = sub

\* str.split(sep) for a one-character separator
RECURSIVE SplitFrom(_, _, _)
SplitFrom(s, sep, cur) ==
    IF s = <<>> THEN <<cur>>
    ELSE IF Head(s) = sep THEN <<cur>> \o SplitFrom(Tail(s), sep, <<>>)
    ELSE SplitFrom(Tail(s), sep, Append(cur, Head(s)))

Split(s, sep) == SplitFrom(s, sep, <<>>)

\* ''.join(parts)
RECURSIVE Join(_)
Join(parts) == IF parts = <<>> THEN <<>> ELSE Head(parts) \o Join(Tail(parts))

\* the elements of a sequence
ToSetOf(q) == {q[i] : i \in DOMAIN q}

(***************************************************************************)
(* Program constants                                                       *)
(***************************************************************************)
LIFERAY_JIRA_SERVER == "http://issues.liferay.com"
LPS == <<"L", "P", "S">>
MsgBasic == "Some, but not all, parameters passed to basic authentication"
MsgOAuth == "Some, but not all, parameters passed to OAuth"
MsgBoth == "Parameters given for both basic auth and OAuth"

(***************************************************************************)
(* JIRASearcher: credential resolution                                     *)
(***************************************************************************)
_get_basic_auth_parameters(username, password) ==
    LET parameters == <<username, password>>
    IN  IF any(parameters) /\ ~all(parameters)
        THEN Raise("JIRASearcherException", MsgBasic)
        ELSE Return(IF all(parameters) THEN Tuple(parameters) ELSE None)

\* a resolver that forgets the partial-credentials check for OAuth
_get_oauth_parameters_lenient(access_token, access_token_secret, consumer_key, key_cert) ==
    LET parameters == [access_token |-> access_token,
                       access_token_secret |-> access_token_secret,
                       consumer_key |-> consumer_key,
                       key_cert |-> key_cert]
        values == <<access_token, access_token_secret, consumer_key, key_cert>>
    IN  Return(IF all(values) THEN Dict(parameters) ELSE None)

_get_oauth_parameters(access_token, access_token_secret, consumer_key, key_cert) ==
    LET parameters == [access_token |-> access_token,
                       access_token_secret |-> access_token_secret,
                       consumer_key |-> consumer_key,
                       key_cert |-> key_cert]
        values == <<access_token, access_token_secret, consumer_key, key_cert>>
    IN  IF any(values) /\ ~all(values)
        THEN Raise("JIRASearcherException", MsgOAuth)
        ELSE Return(IF all(values) THEN Dict(parameters) ELSE None)

_get_jira_parameters(server, basic, oauth) ==
    IF Truthy(basic) /\ Truthy(oauth)
    THEN Raise("JIRASearcherException", MsgBoth)
    ELSE IF Truthy(oauth)
    THEN Return([options |-> [server |-> server], oauth |-> oauth.v])
    ELSE IF Truthy(basic)
    THEN Return([options |-> [server |-> server], basic_auth |-> basic.v])
    ELSE Return([options |-> [server |-> server]])

\* JIRASearcher.__init__: the outcome, and the fields it sets when it returns
JIRASearcher__init__(c) ==
    LET b == _get_basic_auth_parameters(c.username, c.password)
        o == _get_oauth_parameters(c.access_token, c.access_token_secret,
                                   c.consumer_key, c.key_cert)
    IN  IF b.kind = "raise" THEN b
        ELSE IF o.kind = "raise" THEN o
        ELSE Return([basic_auth_parameters |-> b.val, oauth_parameters |-> o.val,
                     jira |-> None])

(***************************************************************************)
(* Query builder: lpstracker.get_ticket_flags and                          *)
(* GitSearcher._get_ticket_flags                                           *)
(***************************************************************************)
\* '--grep={}'.format(ticket)
GrepFlag(ticket) == <<"-", "-", "g", "r", "e", "p", "=">> \o ticket

\* a builder that puts the branch first
get_ticket_flags_branch_first(tks, br) ==
    LET fl == [i \in 1..Len(tks) |-> GrepFlag(tks[i])]
    IN  IF Truthy(br) THEN <<br.v>> \o fl ELSE fl

get_ticket_flags(tks, br) ==
    LET fl == [i \in 1..Len(tks) |-> GrepFlag(tks[i])]
    IN  IF Truthy(br) THEN Append(fl, br.v) ELSE fl

_get_ticket_flags(self_branch, tks) ==
    LET fl == [i \in 1..Len(tks) |-> GrepFlag(tks[i])]
    IN  IF Truthy(self_branch) THEN Append(fl, self_branch.v) ELSE fl

\* the argument list handed to repository.log by get_commits
LogArguments(fl) == << <<"-", "-", "o", "n", "e", "l", "i", "n", "e">> >> \o fl

\* GitSearcher.get_commits, given the text repository.log returns
get_commits(text) == Split(text, "\n")

(***************************************************************************)
(* JIRASearcher: issue lookup and link expansion                           *)
(***************************************************************************)
Ret(v, l) == [kind |-> "return", val |-> v, lookups |-> l]
Exc(e, a, l) == [kind |-> "raise", exc |-> e, arg |-> a, lookups |-> l]

\* the tracker client object stored in JIRASearcher.jira by connect()
JIRA(parameters) == [t |-> "JIRA", parameters |-> parameters]

\* a jira.client.Issue as the tracker returns it
Issue(db, key) == [t |-> "Issue", key |-> key, issuelinks |-> db[key]]

\* self.jira.issue(key): the tracker's lookup; an unknown key is an error of
\* the client (JIRAError, not found)
jira_issue(db, key) ==
    IF key \in DOMAIN db THEN Ret(Issue(db, key), <<key>>)
    ELSE Exc("JIRAError", key, <<key>>)

get_issue(j, db, issue) ==
    IF issue.t = "Issue" THEN Ret(issue, <<>>)
    ELSE IF j.t = "None"
    THEN Exc("AttributeError", "'NoneType' object has no attribute 'issue'", <<>>)
    ELSE jira_issue(db, issue.v)

\* a lookup loop that drops the keys the tracker does not know
RECURSIVE get_issues_skipping(_, _, _)
get_issues_skipping(j, db, is) ==
    IF is = <<>> THEN Ret(<<>>, <<>>)
    ELSE LET h == get_issue(j, db, Head(is))
             r == get_issues_skipping(j, db, Tail(is))
         IN  IF h.kind = "raise" /\ h.exc # "JIRAError" THEN h
             ELSE IF r.kind = "raise" \/ h.kind = "raise"
             THEN [r EXCEPT !.lookups = h.lookups \o @]
             ELSE Ret(<<h.val>> \o r.val, h.lookups \o r.lookups)

RECURSIVE get_issues(_, _, _)
get_issues(j, db, is) ==
    IF is = <<>> THEN Ret(<<>>, <<>>)
    ELSE LET h == get_issue(j, db, Head(is))
         IN  IF h.kind = "raise" THEN h
             ELSE LET r == get_issues(j, db, Tail(is))
                  IN  IF r.kind = "raise"
                      THEN [r EXCEPT !.lookups = h.lookups \o @]
                      ELSE Ret(<<h.val>> \o r.val, h.lookups \o r.lookups)

get_related_issues(j, db, issue, project) ==
    LET g == get_issue(j, db, issue)
    IN  IF g.kind = "raise" THEN g
        ELSE LET issue_links == g.val.issuelinks
                 raw_links == issue_links
                 Keep(ii) == ~Truthy(project) \/ StartsWith(ii.key, project.v)
             IN  IF \E i \in DOMAIN raw_links : "inwardIssue" \notin DOMAIN raw_links[i]
                 THEN Exc("KeyError", "inwardIssue", g.lookups)
                 ELSE LET inward_issues ==
                              [i \in DOMAIN raw_links |-> raw_links[i].inwardIssue]
                          kept == SelectSeq(inward_issues, Keep)
                      IN  Ret([i \in DOMAIN kept |-> kept[i].key], g.lookups)

\* the dict comprehension of get_related_issues_dict over the fetched issues
RECURSIVE RelatedDictOf(_, _, _, _)
RelatedDictOf(j, db, objs, project) ==
    IF objs = <<>> THEN Ret(<<>>, <<>>)
    ELSE LET h == get_related_issues(j, db, Str(Head(objs).key), project)
         IN  IF h.kind = "raise" THEN h
             ELSE LET r == RelatedDictOf(j, db, Tail(objs), project)
                  IN  IF r.kind = "raise"
                      THEN [r EXCEPT !.lookups = h.lookups \o @]
                      ELSE Ret(r.val @@ (Head(objs).key :> h.val),
                               h.lookups \o r.lookups)

get_related_issues_dict(j, db, is, project) ==
    LET g == get_issues(j, db, is)
    IN  IF g.kind = "raise" THEN g
        ELSE LET d == RelatedDictOf(j, db, g.val, project)
             IN  [d EXCEPT !.lookups = g.lookups \o @]

get_related_issues_set(j, db, is, project) ==
    LET d == get_related_issues_dict(j, db, is, project)
    IN  IF d.kind = "raise" THEN d
        ELSE Ret(UNION {{d.val[k][i] : i \in DOMAIN d.val[k]} : k \in DOMAIN d.val},
                 d.lookups)

\* a close that leaves the client in place
close_keeps_client(j) == j

\* JIRASearcher.close
close(j) == None

(***************************************************************************)
(* Values of the variables a scenario does not use                         *)
(***************************************************************************)
NoCredentials == [username |-> None, password |-> None, access_token |-> None,
                  access_token_secret |-> None, consumer_key |-> None,
                  key_cert |-> None]
NoOutcome == [op |-> "none", kind |-> "none"]

NoSearcher ==
    /\ credentials = NoCredentials
    /\ basic_auth_parameters = None
    /\ oauth_parameters = None
    /\ jira = None
NoTracker == tracker = <<>> /\ lookups = <<>>
NoBuilder == tickets = <<>> /\ branch = None /\ flags = <<>>
NoProgram ==
    /\ issues = <<>>
    /\ related_issues = {}
    /\ log_output = <<>>
    /\ commits = <<>>
    /\ not_found_issues = {}

searcherVars == <<credentials, basic_auth_parameters, oauth_parameters, jira>>
trackerVars == <<tracker, lookups>>
builderVars == <<tickets, branch, flags>>
programVars == <<issues, related_issues, log_output, commits, not_found_issues>>

(***************************************************************************)
(* Credential resolution: JIRASearcher(...) then _get_jira_parameters()    *)
(***************************************************************************)
CredentialValues == {None, Str(<<>>), Str(<<"x">>)}

InitAuth ==
    /\ pc = "new"
    /\ credentials \in [username : CredentialValues, password : CredentialValues,
                        access_token : CredentialValues,
                        access_token_secret : CredentialValues,
                        consumer_key : CredentialValues,
                        key_cert : CredentialValues]
    /\ basic_auth_parameters = None
    /\ oauth_parameters = None
    /\ jira = None
    /\ outcome = NoOutcome
    /\ NoTracker /\ NoBuilder /\ NoProgram

Construct ==
    /\ pc = "new"
    /\ LET r == JIRASearcher__init__(credentials)
       IN  IF r.kind = "raise"
           THEN /\ pc' = "failed"
                /\ outcome' = [op |-> "__init__", kind |-> "raise",
                               exc |-> r.exc, msg |-> r.msg]
                /\ UNCHANGED <<basic_auth_parameters, oauth_parameters, jira>>
           ELSE /\ pc' = "constructed"
                /\ outcome' = [op |-> "__init__", kind |-> "return"]
                /\ basic_auth_parameters' = r.val.basic_auth_parameters
                /\ oauth_parameters' = r.val.oauth_parameters
                /\ jira' = r.val.jira
    /\ UNCHANGED <<credentials, trackerVars, builderVars, programVars>>

GetJiraParameters ==
    /\ pc = "constructed"
    /\ LET r == _get_jira_parameters(LIFERAY_JIRA_SERVER, basic_auth_parameters,
                                     oauth_parameters)
       IN  outcome' = IF r.kind = "raise"
                      THEN [op |-> "_get_jira_parameters", kind |-> "raise",
                            exc |-> r.exc, msg |-> r.msg]
                      ELSE [op |-> "_get_jira_parameters", kind |-> "return",
                            val |-> r.val]
    /\ pc' = "resolved"
    /\ UNCHANGED <<searcherVars, trackerVars, builderVars, programVars>>

NextAuth == Construct \/ GetJiraParameters
SpecAuth == InitAuth /\ [][NextAuth]_vars

(***************************************************************************)
(* Query builder: both implementations on the same inputs                  *)
(***************************************************************************)
LPS_1 == <<"L", "P", "S", "-", "1">>
LPS_2 == <<"L", "P", "S", "-", "2">>
Branch62x == <<"6", ".", "2", ".", "x">>
TicketPool == {LPS_1, LPS_2, <<>>}
BranchPool == {None, Str(<<>>), Str(Branch62x)}

SeqsUpTo(S, n) == UNION {[1..k -> S] : k \in 0..n}

InitFlags ==
    /\ pc = "build"
    /\ tickets \in SeqsUpTo(TicketPool, MaxTickets)
    /\ branch \in BranchPool
    /\ flags = <<>>
    /\ outcome = NoOutcome
    /\ NoSearcher /\ NoTracker /\ NoProgram

\* lpstracker.get_ticket_flags(tickets, branch)
BuildWithFunction ==
    /\ pc = "build"
    /\ flags' = get_ticket_flags(tickets, branch)
    /\ pc' = "built_function"
    /\ UNCHANGED <<tickets, branch, outcome, searcherVars, trackerVars, programVars>>

\* GitSearcher(branch=branch)._get_ticket_flags(tickets)
BuildWithMethod ==
    /\ pc = "build"
    /\ flags' = _get_ticket_flags(branch, tickets)
    /\ pc' = "built_method"
    /\ UNCHANGED <<tickets, branch, outcome, searcherVars, trackerVars, programVars>>

NextFlags == BuildWithFunction \/ BuildWithMethod
SpecFlags == InitFlags /\ [][NextFlags]_vars

(***************************************************************************)
(* A JIRASearcher used through its methods: connect, close, get_issue,     *)
(* get_related_issues, get_related_issues_set, in any order.  The caller   *)
(* makes one call at a time ("idle" -> "returned") and then takes the      *)
(* outcome ("returned" -> "idle").                                         *)
(***************************************************************************)
LPE_10001 == <<"L", "P", "E", "-", "1", "0", "0", "0", "1">>
LPE_10002 == <<"L", "P", "E", "-", "1", "0", "0", "0", "2">>
LPE_99 == <<"L", "P", "E", "-", "9", "9">>
LPS_41798 == <<"L", "P", "S", "-", "4", "1", "7", "9", "8">>
LPS_41981 == <<"L", "P", "S", "-", "4", "1", "9", "8", "1">>
LPSX_5 == <<"L", "P", "S", "X", "-", "5">>

\* the raw form of an issue link: it carries its linked issue under
\* 'inwardIssue' or under 'outwardIssue', never both
InwardLink(key) == [inwardIssue |-> [key |-> key]]
OutwardLink(key) == [outwardIssue |-> [key |-> key]]

SourceKeys == {LPE_10001, LPE_10002}
RawLinkPool == {InwardLink(LPS_41798), InwardLink(LPSX_5), OutwardLink(LPE_99)}

\* the trackers considered: LPE-10001 is absent or has any links of the pool,
\* LPE-10002 is absent or has its one inward link
Trackers ==
    {a @@ b : a \in {<<>>} \cup {LPE_10001 :> l : l \in SeqsUpTo(RawLinkPool, MaxLinks)},
              b \in {<<>>, LPE_10002 :> <<InwardLink(LPS_41981)>>}}

\* what a caller may pass as an issue: a key, or an Issue fetched earlier
IssueArguments(db) == {Str(k) : k \in SourceKeys} \cup {Issue(db, k) : k \in DOMAIN db}
ProjectPool == {None, Str(<<>>), Str(LPS)}

BasicCredentials == [NoCredentials EXCEPT !.username = Str(<<"x">>),
                                          !.password = Str(<<"x">>)]
BothCredentials == [f \in DOMAIN NoCredentials |-> Str(<<"x">>)]
SessionCredentials == {NoCredentials, BasicCredentials, BothCredentials}

NoValue == "no value"
Call(op, wasOpen, input, project, r) ==
    [op |-> op, wasOpen |-> wasOpen, input |-> input, project |-> project,
     kind |-> r.kind,
     val |-> IF r.kind = "return" THEN r.val ELSE NoValue,
     exc |-> IF r.kind = "raise" THEN r.exc ELSE NoValue,
     arg |-> IF r.kind = "raise" THEN r.arg ELSE NoValue]

InitSession ==
    /\ pc = "idle"
    /\ credentials \in SessionCredentials
    /\ LET r == JIRASearcher__init__(credentials)
       IN  /\ r.kind = "return"
           /\ basic_auth_parameters = r.val.basic_auth_parameters
           /\ oauth_parameters = r.val.oauth_parameters
           /\ jira = r.val.jira
    /\ tracker \in Trackers
    /\ lookups = <<>>
    /\ outcome = NoOutcome
    /\ NoBuilder /\ NoProgram

\* JIRASearcher.connect: the parameters may be refused by _get_jira_parameters,
\* and the client's constructor may fail to reach the server
Connect ==
    /\ pc = "idle"
    /\ LET p == _get_jira_parameters(LIFERAY_JIRA_SERVER, basic_auth_parameters,
                                     oauth_parameters)
       IN  IF p.kind = "raise"
           THEN /\ outcome' = Call("connect", jira # None, NoValue, NoValue,
                                   Exc(p.exc, p.msg, <<>>))
                /\ jira' = jira
           ELSE \/ /\ jira' = JIRA(p.val)
                   /\ outcome' = Call("connect", jira # None, NoValue, NoValue,
                                      Ret(NoValue, <<>>))
                \/ /\ jira' = jira
                   /\ outcome' = Call("connect", jira # None, NoValue, NoValue,
                                      Exc("JIRAError", "connection failed", <<>>))
    /\ pc' = "returned"
    /\ lookups' = <<>>
    /\ UNCHANGED <<credentials, basic_auth_parameters, oauth_parameters, tracker,
                   builderVars, programVars>>

Close ==
    /\ pc = "idle"
    /\ jira' = close(jira)
    /\ outcome' = Call("close", jira # None, NoValue, NoValue, Ret(NoValue, <<>>))
    /\ pc' = "returned"
    /\ lookups' = <<>>
    /\ UNCHANGED <<credentials, basic_auth_parameters, oauth_parameters, tracker,
                   builderVars, programVars>>

GetIssue ==
    /\ pc = "idle"
    /\ \E issue \in IssueArguments(tracker) :
          LET r == get_issue(jira, tracker, issue)
          IN  /\ outcome' = Call("get_issue", jira # None, issue, NoValue, r)
              /\ lookups' = r.lookups
    /\ pc' = "returned"
    /\ UNCHANGED <<searcherVars, tracker, builderVars, programVars>>

GetRelatedIssues ==
    /\ pc = "idle"
    /\ \E issue \in IssueArguments(tracker), project \in ProjectPool :
          LET r == get_related_issues(jira, tracker, issue, project)
          IN  /\ outcome' = Call("get_related_issues", jira # None, issue, project, r)
              /\ lookups' = r.lookups
    /\ pc' = "returned"
    /\ UNCHANGED <<searcherVars, tracker, builderVars, programVars>>

GetRelatedIssuesSet ==
    /\ pc = "idle"
    /\ \E is \in SeqsUpTo(IssueArguments(tracker), MaxIssues), project \in ProjectPool :
          LET r == get_related_issues_set(jira, tracker, is, project)
          IN  /\ outcome' = Call("get_related_issues_set", jira # None, is, project, r)
              /\ lookups' = r.lookups
    /\ pc' = "returned"
    /\ UNCHANGED <<searcherVars, tracker, builderVars, programVars>>

\* the caller takes the outcome and is ready for its next call
TakeOutcome ==
    /\ pc = "returned"
    /\ pc' = "idle"
    /\ outcome' = NoOutcome
    /\ lookups' = <<>>
    /\ UNCHANGED <<searcherVars, tracker, builderVars, programVars>>

NextSession ==
    \/ Connect
    \/ Close
    \/ GetIssue
    \/ GetRelatedIssues
    \/ GetRelatedIssuesSet
    \/ TakeOutcome
SpecSession == InitSession /\ [][NextSession]_vars

(***************************************************************************)
(* The reconciliation program (gitsearch.py run as a script)               *)
(***************************************************************************)
LPS_41 == <<"L", "P", "S", "-", "4", "1">>

\* the text the version-control tool may return: up to MaxChunks pieces
ChunkPool == {LPS_41798, LPS_41, <<"7", "9", "8">>, <<"\n">>}
LogTexts == {Join(cs) : cs \in SeqsUpTo(ChunkPool, MaxChunks)}

\* the orders in which a set may be iterated
Orders(S) == {q \in [1..Cardinality(S) -> S] : ToSetOf(q) = S}

\* command-line values of --username and --password (--branch: None or 6.2.x)
ArgumentValues == {None, Str(<<"x">>)}

\* the trackers the program is run against: at most one link on LPE-10001
MainTrackers == {db \in Trackers : \A k \in DOMAIN db : Len(db[k]) <= 1}

InitMain ==
    /\ pc = "start"
    /\ credentials \in {[NoCredentials EXCEPT !.username = u, !.password = p] :
                            u \in ArgumentValues, p \in ArgumentValues}
    /\ issues \in SeqsUpTo(SourceKeys, MaxIssues) \ {<<>>}
    /\ tracker \in MainTrackers
    /\ basic_auth_parameters = None
    /\ oauth_parameters = None
    /\ jira = None
    /\ lookups = <<>>
    /\ outcome = NoOutcome
    /\ related_issues = {}
    /\ log_output = <<>>
    /\ commits = <<>>
    /\ not_found_issues = {}
    /\ branch \in {None, Str(Branch62x)}
    /\ tickets = <<>>
    /\ flags = <<>>

\* gs = GitSearcher(...); js = JIRASearcher(...)
MainConstruct ==
    /\ pc = "start"
    /\ LET r == JIRASearcher__init__(credentials)
       IN  IF r.kind = "raise"
           THEN /\ pc' = "crashed"
                /\ outcome' = Call("__init__", FALSE, NoValue, NoValue,
                                   Exc(r.exc, r.msg, <<>>))
                /\ UNCHANGED <<basic_auth_parameters, oauth_parameters, jira>>
           ELSE /\ pc' = "constructed"
                /\ outcome' = Call("__init__", FALSE, NoValue, NoValue,
                                   Ret(NoValue, <<>>))
                /\ basic_auth_parameters' = r.val.basic_auth_parameters
                /\ oauth_parameters' = r.val.oauth_parameters
                /\ jira' = r.val.jira
    /\ UNCHANGED <<credentials, trackerVars, builderVars, programVars>>

\* js.connect()
MainConnect ==
    /\ pc = "constructed"
    /\ LET p == _get_jira_parameters(LIFERAY_JIRA_SERVER, basic_auth_parameters,
                                     oauth_parameters)
       IN  IF p.kind = "raise"
           THEN /\ outcome' = Call("connect", FALSE, NoValue, NoValue,
                                   Exc(p.exc, p.msg, <<>>))
                /\ jira' = jira
                /\ pc' = "crashed"
           ELSE \/ /\ jira' = JIRA(p.val)
                   /\ outcome' = Call("connect", FALSE, NoValue, NoValue,
                                      Ret(NoValue, <<>>))
                   /\ pc' = "connected"
                \/ /\ jira' = jira
                   /\ outcome' = Call("connect", FALSE, NoValue, NoValue,
                                      Exc("JIRAError", "connection failed", <<>>))
                   /\ pc' = "crashed"
    /\ UNCHANGED <<credentials, basic_auth_parameters, oauth_parameters, trackerVars,
                   builderVars, programVars>>

\* related_issues = js.get_related_issues_set(issues)
MainExpand ==
    /\ pc = "connected"
    /\ LET is == [i \in DOMAIN issues |-> Str(issues[i])]
           r == get_related_issues_set(jira, tracker, is, Str(LPS))
       IN  /\ outcome' = Call("get_related_issues_set", jira # None, is, Str(LPS), r)
           /\ lookups' = r.lookups
           /\ IF r.kind = "raise"
              THEN pc' = "crashed" /\ related_issues' = related_issues
              ELSE pc' = "expanded" /\ related_issues' = r.val
    /\ UNCHANGED <<searcherVars, tracker, builderVars, issues, log_output, commits,
                   not_found_issues>>

\* js.close()
MainClose ==
    /\ pc = "expanded"
    /\ jira' = close(jira)
    /\ pc' = "closed"
    /\ UNCHANGED <<credentials, basic_auth_parameters, oauth_parameters, trackerVars,
                   outcome, builderVars, programVars>>

\* gs.get_commits(related_issues), up to the call of repository.log: the flags
\* follow the iteration order of the set
StartLog ==
    /\ pc = "closed"
    /\ \E order \in Orders(related_issues) :
          /\ tickets' = order
          /\ flags' = LogArguments(_get_ticket_flags(branch, order))
    /\ pc' = "git_log"
    /\ UNCHANGED <<branch, searcherVars, trackerVars, outcome, programVars>>

\* repository.log(...) returns its text; get_commits splits it into lines
LogReturns ==
    /\ pc = "git_log"
    /\ \E text \in LogTexts :
          /\ log_output' = text
          /\ commits' = get_commits(text)
    /\ pc' = "logged"
    /\ UNCHANGED <<searcherVars, trackerVars, outcome, builderVars, issues,
                   related_issues, not_found_issues>>

\* all_logs = ''.join(commits); the issues not in all_logs are printed
Reconcile ==
    /\ pc = "logged"
    /\ LET all_logs == Join(commits)
       IN  not_found_issues' = {issue \in related_issues : ~Contains(all_logs, issue)}
    /\ pc' = "done"
    /\ UNCHANGED <<searcherVars, trackerVars, outcome, builderVars, issues,
                   related_issues, log_output, commits>>

NextMain ==
    \/ MainConstruct
    \/ MainConnect
    \/ MainExpand
    \/ MainClose
    \/ StartLog
    \/ LogReturns
    \/ Reconcile
SpecMain == InitMain /\ [][NextMain]_vars

(***************************************************************************)
(* C1                                                                      *)
(***************************************************************************)
IsSet(f) == Truthy(credentials[f])
BasicCount == Cardinality({f \in {"username", "password"} : IsSet(f)})
OAuthCount == Cardinality({f \in {"access_token", "access_token_secret",
                                   "consumer_key", "key_cert"} : IsSet(f)})

ExpectedVerdict ==
    IF BasicCount = 1 THEN "PartialBasic"
    ELSE IF OAuthCount \in 1..3 THEN "PartialOAuth"
    ELSE IF BasicCount = 2 /\ OAuthCount = 4 THEN "Conflict"
    ELSE IF BasicCount = 2 THEN "Basic"
    ELSE IF OAuthCount = 4 THEN "Token"
    ELSE "Anonymous"

ObservedVerdict ==
    IF outcome.kind = "raise"
    THEN IF outcome.exc # "JIRASearcherException" THEN "Other"
         ELSE IF outcome.msg = MsgBasic THEN "PartialBasic"
         ELSE IF outcome.msg = MsgOAuth THEN "PartialOAuth"
         ELSE IF outcome.msg = MsgBoth THEN "Conflict"
         ELSE "Other"
    ELSE IF outcome.op # "_get_jira_parameters" THEN "Other"
    ELSE IF DOMAIN outcome.val = {"options", "basic_auth"}
            /\ outcome.val.basic_auth = <<credentials.username, credentials.password>>
    THEN "Basic"
    ELSE IF DOMAIN outcome.val = {"options", "oauth"}
            /\ outcome.val.oauth = [f \in {"access_token", "access_token_secret",
                                           "consumer_key", "key_cert"} |-> credentials[f]]
    THEN "Token"
    ELSE IF DOMAIN outcome.val = {"options"} THEN "Anonymous"
    ELSE "Other"

\* C1: every presence combination of the six credential fields resolves to the
\* one outcome the precedence partial-basic, partial-OAuth, conflict, then
\* Basic/Token/Anonymous prescribes; a partially set strategy never gets past
\* the constructor.
C1_ResolutionIsTotalAndOrdered ==
    /\ pc \in {"failed", "resolved"} => ObservedVerdict = ExpectedVerdict
    /\ pc = "failed" <=> (pc # "new" /\ ExpectedVerdict \in {"PartialBasic", "PartialOAuth"})
    /\ pc = "new" => ENABLED Construct
    /\ pc = "constructed" => ENABLED GetJiraParameters

C1_Witness ==
    /\ pc = "failed"
    /\ BasicCount = 2
    /\ OAuthCount = 3
    /\ ObservedVerdict = "PartialOAuth"

(***************************************************************************)
(* C6                                                                      *)
(***************************************************************************)
BranchGiven == branch.t = "str" /\ Len(branch.v) > 0

\* C6: the builder returns one '--grep=<ticket>' flag per ticket in input
\* order, then the branch as last element exactly when the branch is
\* non-empty; nothing else.
C6_FlagsMirrorTickets ==
    pc \in {"built_function", "built_method"} =>
        /\ Len(flags) = Len(tickets) + (IF BranchGiven THEN 1 ELSE 0)
        /\ \A i \in 1..Len(tickets) :
              /\ Len(flags[i]) = 7 + Len(tickets[i])
              /\ SubSeq(flags[i], 1, 7) = <<"-", "-", "g", "r", "e", "p", "=">>
              /\ SubSeq(flags[i], 8, Len(flags[i])) = tickets[i]
        /\ BranchGiven => flags[Len(flags)] = branch.v
        /\ (tickets = <<>> /\ ~BranchGiven) => flags = <<>>

C6_Witness ==
    /\ pc = "built_function"
    /\ tickets = <<LPS_2, LPS_1>>
    /\ branch = Str(Branch62x)
    /\ flags = <<GrepFlag(LPS_2), GrepFlag(LPS_1), Branch62x>>

(***************************************************************************)
(* Link expansion claims (SpecSession)                                     *)
(***************************************************************************)
\* the project prefix of an issue key: the text before its first hyphen
ProjectPrefix(key) == Split(key, "-")[1]

\* the links of the issue a call was made for
LinksOf(issue) == IF issue.t = "Issue" THEN issue.issuelinks ELSE tracker[issue.v]
Resolves(issue) == issue.t = "Issue" \/ issue.v \in DOMAIN tracker
IsInward(l) == "inwardIssue" \in DOMAIN l
InwardKeys(links) ==
    LET inward == SelectSeq(links, IsInward)
    IN  [i \in DOMAIN inward |-> inward[i].inwardIssue.key]

ExpandedOne ==
    /\ pc = "returned"
    /\ outcome.op = "get_related_issues"
    /\ outcome.wasOpen
    /\ Resolves(outcome.input)

\* C3: for an issue with inward and outward links get_related_issues returns,
\* without error, exactly the inward-linked keys that pass the project
\* filter; outward links contribute nothing.
C3_OnlyInwardLinksKept ==
    (ExpandedOne /\ (\E i \in DOMAIN LinksOf(outcome.input) :
                         ~IsInward(LinksOf(outcome.input)[i]))
                 /\ (\E i \in DOMAIN LinksOf(outcome.input) :
                         IsInward(LinksOf(outcome.input)[i])))
    => /\ outcome.kind = "return"
       /\ ToSetOf(outcome.val) \subseteq ToSetOf(InwardKeys(LinksOf(outcome.input)))
       /\ \A k \in ToSetOf(InwardKeys(LinksOf(outcome.input))) :
             (Truthy(outcome.project) => ProjectPrefix(k) = outcome.project.v)
                 => k \in ToSetOf(outcome.val)

\* C4: a linked key is retained only if the text before its first hyphen
\* equals the target prefix; without a prefix filter every inward-linked key
\* is retained.
C4_PrefixBeforeHyphenFilter ==
    (ExpandedOne /\ outcome.kind = "return")
    => /\ Truthy(outcome.project) =>
              \A k \in ToSetOf(outcome.val) : ProjectPrefix(k) = outcome.project.v
       /\ ~Truthy(outcome.project) =>
              outcome.val = InwardKeys(LinksOf(outcome.input))

\* C5: get_issue on a closed session (never connected, or closed since) fails
\* with the dedicated session-not-connected error and returns no issue.
C5_ClosedSessionRejectsLookup ==
    (pc = "returned" /\ outcome.op = "get_issue" /\ ~outcome.wasOpen)
    => /\ outcome.kind = "raise"
       /\ outcome.exc = "SessionNotConnectedError"
       /\ outcome.val = NoValue

ExpandedSet ==
    /\ pc = "returned"
    /\ outcome.op = "get_related_issues_set"
    /\ outcome.wasOpen

UnresolvedAt(is) == {i \in DOMAIN is : ~Resolves(is[i])}
FirstUnresolved(is) ==
    is[CHOOSE i \in UnresolvedAt(is) : \A m \in UnresolvedAt(is) : i <= m].v

\* C7: an expansion whose input holds a key the tracker does not know fails
\* as a whole with the tracker's not-found error for such a key, whatever the
\* position of the key and whatever the other keys are; no set is returned.
C7_UnknownKeyFailsWholeExpansion ==
    (ExpandedSet /\ UnresolvedAt(outcome.input) # {})
    => /\ outcome.kind = "raise"
       /\ outcome.exc = "JIRAError"
       /\ outcome.arg = FirstUnresolved(outcome.input)
       /\ outcome.val = NoValue

C7_Witness ==
    /\ ExpandedSet
    /\ outcome.input = <<Str(LPE_10002), Str(LPE_10001)>>
    /\ LPE_10002 \in DOMAIN tracker
    /\ LPE_10001 \notin DOMAIN tracker
    /\ outcome.kind = "raise"
    /\ outcome.arg = LPE_10001
    /\ lookups = <<LPE_10002, LPE_10001>>

\* C8: an expansion over n keys given as strings issues exactly n tracker
\* lookups, one per key, in input order.
C8_OneLookupPerSourceKey ==
    (ExpandedSet /\ outcome.kind = "return"
                 /\ \A i \in DOMAIN outcome.input : outcome.input[i].t = "str")
    => lookups = [i \in DOMAIN outcome.input |-> outcome.input[i].v]

(***************************************************************************)
(* Reconciliation and session lifetime claims                              *)
(***************************************************************************)
\* C2: a ticket is reported as not found if and only if its identifier does
\* not occur as a substring of the log text the version-control tool returned.
C2_NotFoundIffAbsentFromLogText ==
    pc = "done" =>
        not_found_issues = {t \in related_issues : ~Contains(log_output, t)}

\* C9: the version-control query runs only while the tracker session is
\* closed: whenever the log call is in progress, JIRASearcher.jira is None.
C9_LogQueryOnlyWhileSessionClosed ==
    pc = "git_log" => jira = None

C9_Witness ==
    /\ pc = "git_log"
    /\ outcome.op = "get_related_issues_set"
    /\ outcome.wasOpen
    /\ related_issues # {}
    /\ jira = None

\* C10: a run that opened the session has closed it when the run ends, also
\* when link expansion failed.
C10_SessionClosedWhenRunEnds ==
    pc \in {"done", "crashed"} => jira = None

====
